---- MODULE Spec2Model ----
(***************************************************************************)
(* Garmin -> Google Sheets daily rollup (garmin-sheets-daily.py and its    *)
(* revision garmin-sheets-daily2.py): the run of main() as a state         *)
(* machine over the worksheet, which is the only state that outlives a     *)
(* run.  One action per I/O step of main(); environment values, provider   *)
(* responses and store faults are the actions' inputs.                     *)
(*                                                                         *)
(* The worksheet is kept as the sequence of its rows up to the last row    *)
(* holding data (row 1 is the header); a row is the sequence of its cells  *)
(* up to the last one written.  The 41/51 columns of SHEET_HEADERS are     *)
(* represented by one column per kind of source: the date key, the         *)
(* activity rollup, a per-date adapter (Steps) and the two window-level    *)
(* list adapters (Intensity Minutes, HRV), kept in each script's order.    *)
(***************************************************************************)
EXTENDS Integers, Sequences, FiniteSets, TLC

\* ---------------------------------------------------------------- bounds
\* largest WINDOW_DAYS the environment supplies
MaxWindow == 2
\* number of runs of the script in one behaviour
MaxRuns == 2
\* rows (header included) the worksheet may grow to
MaxRows == 4

\* ---------------------------------------------------------------- values
\* Python None
None == "<None>"
\* the empty string, which is also what an empty cell reads back as
Blank == ""
\* values a provider can report for a metric
Values == {"v1"}
\* the two revisions of the script
Scripts == {"daily", "daily2"}

\* iso_date(d): d.isoformat(), days of one month
iso_date(d) == "2025-03-" \o (IF d < 10 THEN "0" ELSE "") \o ToString(d)

\* ---------------------------------------------------------------- schema
\* SHEET_HEADERS: the ordered header row each script expects
SHEET_HEADERS(s) ==
  IF s = "daily"
  THEN <<"Date", "Activities (#)", "Steps", "Intensity Minutes", "HRV">>
  ELSE <<"Date", "HRV", "Steps", "Activities (#)", "Intensity Minutes">>

\* len(SHEET_HEADERS): the number of columns the full schema has
HeaderCount(s) == IF s = "daily" THEN 41 ELSE 51

\* the keys main() removes from props when their value is None
VolatileKeys(s) ==
  IF s = "daily" THEN {"Intensity Minutes", "HRV"} ELSE {}

\* the per-date provider calls of the loop body, in call order
PerDateAdapters(s) ==
  IF s = "daily"
  THEN <<"steps", "sleep", "stress", "weight">>
  ELSE <<"steps", "sleep", "stress", "weight",
         "readiness", "training_status", "respiration">>

\* ---------------------------------------------------------------- helpers
\* dict.get(k, default)
Get(dct, k, default) == IF k \in DOMAIN dct THEN dct[k] ELSE default

\* the empty dict
EmptyDict == <<>>

\* ---------------------------------------------------------------- worksheet
\* the value kept as it was handed over
StoreCellAsGiven(v) == v

\* what the sheet holds after a cell is written with v (RAW input)
StoreCell(v) == IF v = None THEN Blank ELSE v

\* ws.col_values(1): the first column, down to its last non-empty cell
RECURSIVE TrimBlank(_)
TrimBlank(col) ==
  IF col = <<>> THEN col
  ELSE IF col[Len(col)] = Blank THEN TrimBlank(SubSeq(col, 1, Len(col) - 1))
  ELSE col

col_values(rows) ==
  TrimBlank([i \in 1..Len(rows) |->
               IF Len(rows[i]) >= 1 THEN rows[i][1] ELSE Blank])

\* ws.row_values(1)
row_values_1(rows) == IF Len(rows) >= 1 THEN TrimBlank(rows[1]) ELSE <<>>

\* the update range starting one column to the right
UpdateCellsShifted(old, vals) ==
  [i \in 1..(IF Len(old) > Len(vals) + 1 THEN Len(old) ELSE Len(vals) + 1) |->
     IF i = 1 THEN (IF Len(old) >= 1 THEN old[1] ELSE "")
     ELSE IF i - 1 > Len(vals) THEN old[i]
     ELSE IF vals[i - 1] = "<None>" THEN "" ELSE vals[i - 1]]

\* ws.update(range_name="A<r>:<last col><r>", values=[vals]): the cells of
\* row r in the range are replaced, the cells to the right of it stay
UpdateCells(old, vals) ==
  [i \in 1..(IF Len(old) > Len(vals) THEN Len(old) ELSE Len(vals)) |->
     IF i <= Len(vals) THEN StoreCell(vals[i]) ELSE old[i]]

\* the values put in as a new row r, the rows from r on moved down by one
ws_insert_row(rows, r, vals) ==
  [i \in 1..(Len(rows) + 1) |->
     IF i < r THEN rows[i]
     ELSE IF i = r THEN [j \in 1..Len(vals) |-> StoreCell(vals[j])]
     ELSE rows[i - 1]]

ws_update(rows, r, vals) ==
  [i \in 1..(IF Len(rows) > r THEN Len(rows) ELSE r) |->
     IF i = r THEN UpdateCells(IF i <= Len(rows) THEN rows[i] ELSE <<>>, vals)
     ELSE IF i <= Len(rows) THEN rows[i] ELSE <<>>]

\* ws.append_row(vals): a new row after the last row holding data
ws_append_row(rows, vals) ==
  Append(rows, [i \in 1..Len(vals) |-> StoreCell(vals[i])])

\* the sheet cut one column short of n
ws_resize_short(rows, n) ==
  [i \in 1..Len(rows) |->
     IF Len(rows[i]) > n - 1 THEN SubSeq(rows[i], 1, n - 1) ELSE rows[i]]

\* ws.resize(cols=n): cells beyond column n are dropped
ws_resize(rows, n) ==
  [i \in 1..Len(rows) |->
     IF Len(rows[i]) > n THEN SubSeq(rows[i], 1, n) ELSE rows[i]]

\* _read_date_index: {Date -> row number} over rows 2.. of the first column
RECURSIVE BuildIndex(_, _, _)
BuildIndex(col, i, idx) ==
  IF i > Len(col) THEN idx
  ELSE BuildIndex(col, i + 1,
                  IF col[i] # Blank THEN (col[i] :> i) @@ idx ELSE idx)

read_date_index(col) == BuildIndex(col, 2, EmptyDict)

\* ---------------------------------------------------------------- rollup
\* An activity is a dict with the keys
\*   day       date of startTimeLocal / startTimeGMT (0: no start time)
\*   type      activityType.typeKey (None: no type)
\*   name      activityName ("": none)
\* and, when the provider sends them, distance (m), duration (s), calories
\* and te (trainingEffectLabel).

\* (a.get(k) or 0)
Num(a, k) == IF k \in DOMAIN a THEN a[k] ELSE 0

\* _first_present(a, [k]): the value under k, None when there is none
first_present(a, k) == IF k \in DOMAIN a /\ a[k] # Blank THEN a[k] ELSE None

\* `if x:` for a label
Truthy(x) == x # None /\ x # Blank

\* " ".join(seq)
RECURSIVE JoinSp(_)
JoinSp(seq) ==
  IF seq = <<>> THEN Blank
  ELSE IF Len(seq) = 1 THEN seq[1]
  ELSE seq[1] \o " " \o JoinSp(Tail(seq))

\* round(n / m, ...) on a quotient of naturals: to nearest, ties to even
RoundDiv(n, m) ==
  LET q == n \div m
      r == n % m
  IN  IF 2 * r < m THEN q
      ELSE IF 2 * r > m THEN q + 1
      ELSE IF q % 2 = 0 THEN q ELSE q + 1

\* the type keys the provider uses, in the order Python compares strings
TypeKeys == <<"bike", "run", "swim">>

\* position of a type key in string order
Rank(t) == CHOOSE i \in 1..Len(TypeKeys) : TypeKeys[i] = t

\* sorted(...): insertion into an ascending list
RECURSIVE Insert(_, _)
Insert(t, asc) ==
  IF asc = <<>> THEN <<t>>
  ELSE IF Rank(t) <= Rank(Head(asc)) THEN <<t>> \o asc
  ELSE <<Head(asc)>> \o Insert(t, Tail(asc))

RECURSIVE sorted(_)
sorted(seq) == IF seq = <<>> THEN <<>> ELSE Insert(Head(seq), sorted(Tail(seq)))

\* the keys of Counter(types) / the members of set(types), in the order of
\* their first occurrence
RECURSIVE Distinct(_)
Distinct(types) ==
  IF types = <<>> THEN <<>>
  ELSE LET before == Distinct(SubSeq(types, 1, Len(types) - 1))
           t == types[Len(types)]
       IN  IF \E i \in 1..Len(before) : before[i] = t
           THEN before ELSE Append(before, t)

\* Counter(types)[t]
CountOf(types, t) == Cardinality({i \in 1..Len(types) : types[i] = t})

\* max(counter.items(), key=count): the first key holding the largest count
RECURSIVE FirstMax(_, _, _)
FirstMax(keys, types, best) ==
  IF keys = <<>> THEN best
  ELSE FirstMax(Tail(keys), types,
                IF CountOf(types, Head(keys)) > CountOf(types, best)
                THEN Head(keys) ELSE best)

\* the largest count looked for among the keys in string order
MostCommonAlphabetical(types) ==
  IF types = <<>> THEN ""
  ELSE FirstMax(Tail(sorted(Distinct(types))), types,
                Head(sorted(Distinct(types))))

\* primary = type_counts.most_common(1)[0][0] if type_counts else ""
MostCommon(types) ==
  IF types = <<>> THEN Blank
  ELSE FirstMax(Tail(Distinct(types)), types, Head(Distinct(types)))

\* the distinct types joined in the order they were first seen
UniqueTypesFirstSeen(types) == JoinSp(Distinct(types))

\* unique_types = " ".join(sorted(set(v["types"])))
UniqueTypes(types) == JoinSp(sorted(Distinct(types)))

\* nothing filtered out
KeepAll(acts, start) == acts

\* fetch_activities_bulk: the events dated on or after start_d (an event
\* without a start time has day 0 and is dropped)
RECURSIVE KeepFrom(_, _)
KeepFrom(acts, start) ==
  IF acts = <<>> THEN <<>>
  ELSE (IF Head(acts).day # 0 /\ Head(acts).day >= start
        THEN <<Head(acts)>> ELSE <<>>) \o KeepFrom(Tail(acts), start)

fetch_activities_bulk(acts, start) == KeepFrom(acts, start)

\* the defaultdict's value for a date not seen yet (distance kept in metres
\* and duration in seconds until the entry is closed)
NewEntry ==
  [count |-> 0, dist_m |-> 0, dur_s |-> 0, cal |-> 0,
   names |-> <<>>, types |-> <<>>, te |-> <<>>]

\* the event put in front of the ones already seen
AddActivityNewestFirst(entry, a) ==
  [entry EXCEPT !.count = @ + 1,
                !.dist_m = @ + (IF "distance" \in DOMAIN a THEN a["distance"] ELSE 0),
                !.dur_s = @ + (IF "duration" \in DOMAIN a THEN a["duration"] ELSE 0),
                !.cal = @ + (IF "calories" \in DOMAIN a THEN a["calories"] ELSE 0),
                !.names = IF a.name # "" THEN <<a.name>> \o @ ELSE @,
                !.types = IF a.type # "<None>" THEN <<a.type>> \o @ ELSE @,
                !.te = IF "te" \in DOMAIN a THEN <<a["te"]>> \o @ ELSE @]

\* the loop body of aggregate_activities_by_date for one dated event
AddActivity(entry, a) ==
  [entry EXCEPT !.count = @ + 1,
                !.dist_m = @ + Num(a, "distance"),
                !.dur_s = @ + Num(a, "duration"),
                !.cal = @ + Num(a, "calories"),
                !.names = IF Truthy(a.name) THEN Append(@, a.name) ELSE @,
                !.types = IF Truthy(a.type) THEN Append(@, a.type) ELSE @,
                !.te = IF Truthy(first_present(a, "te"))
                       THEN Append(@, first_present(a, "te")) ELSE @]

\* the first loop of aggregate_activities_by_date
RECURSIVE GroupByDate(_, _)
GroupByDate(activities, by_date) ==
  IF activities = <<>> THEN by_date
  ELSE LET a == Head(activities)
           dt == iso_date(a.day)
       IN  GroupByDate(Tail(activities),
             IF a.day = 0 THEN by_date
             ELSE (dt :> AddActivity(Get(by_date, dt, NewEntry), a)) @@ by_date)

\* the second loop: the entry closed. dist_mi and dur_min are held in
\* hundredths (round(x, 2)), cal in whole calories (round(x, 0))
CloseEntry(v) ==
  [count |-> v.count,
   dist_mi |-> RoundDiv(v.dist_m * 10000, 160934),
   dur_min |-> RoundDiv(v.dur_s * 100, 60),
   cal |-> v.cal,
   primary |-> MostCommon(v.types),
   types_unique |-> UniqueTypes(v.types),
   names |-> JoinSp(v.names),
   types |-> JoinSp(v.types),
   te |-> JoinSp(v.te)]

\* aggregate_activities_by_date: {date key -> summary}
aggregate_activities_by_date(activities) ==
  LET by_date == GroupByDate(activities, EmptyDict)
  IN  IF by_date = EmptyDict THEN EmptyDict
      ELSE [dt \in DOMAIN by_date |-> CloseEntry(by_date[dt])]

\* act_by_date.get(d_iso, {...}): the summary of a date without events
NoActivity ==
  [count |-> 0, dist_mi |-> 0, dur_min |-> 0, cal |-> 0, primary |-> Blank,
   types_unique |-> Blank, names |-> Blank, types |-> Blank, te |-> Blank]

\* ---------------------------------------------------------------- sleep scores
\* A payload value is [kind, f]: kind says whether it is a dict, f holds its
\* keys.  A numeric key (score, value, percentage) is present with a number
\* or missing; a qualifier key may also be present with None.

\* `x or {}` for a missing entry
EmptyItem == [kind |-> "dict", f |-> EmptyDict]

\* _format_score_value(source, key_src)
format_score_value(src, key_src) ==
  IF src.kind # "dict" THEN None
  ELSE LET item == Get(src.f, key_src, EmptyItem) IN
       IF item.kind # "dict" THEN None
       ELSE LET f == item.f
                score_str ==
                  IF "score" \in DOMAIN f THEN ToString(f["score"])
                  ELSE IF "value" \in DOMAIN f THEN ToString(f["value"])
                  ELSE IF "percentage" \in DOMAIN f
                       THEN ToString(f["percentage"])
                  ELSE "None"
                qual == IF "qualifierKey" \in DOMAIN f THEN f["qualifierKey"]
                        ELSE Get(f, "qualifier", None)
            IN  IF qual # None THEN score_str \o "(" \o qual \o ")"
                ELSE score_str

\* _sleep_scores_from, the formatted sub-scores: awake count, and deep %
\* with its second spelling.  A payload that is not a dict makes qual()
\* raise, fetch_sleep_for_date returns {} and no score is set.
sleep_scores_from(src) ==
  IF src.kind # "dict" THEN EmptyDict
  ELSE LET deep == format_score_value(src, "deepPercentage") IN
       [k \in {"awake_count_fmt", "deep_percentage_fmt"} |->
          IF k = "awake_count_fmt" THEN format_score_value(src, "awakeCount")
          ELSE IF deep = None
               THEN format_score_value(src, "deep_percentage")
          ELSE deep]

\* (sleep.get("scores", {}) or {}).get(k)
ScoreCell(sc, k) == Get(sc, k, None)

\* ---------------------------------------------------------------- merge
\* props as main() builds it for one date
BuildProps(d_iso, act_count, steps_v, intensity_total, hrv_v) ==
  [k \in {"Date", "Activities (#)", "Steps", "Intensity Minutes", "HRV"} |->
     CASE k = "Date" -> d_iso
       [] k = "Activities (#)" -> ToString(act_count)
       [] k = "Steps" -> steps_v
       [] k = "Intensity Minutes" -> intensity_total
       [] OTHER -> hrv_v]

\* "Only write these if present": props.pop(k) for the volatile keys at None
PopAbsent(s, props) ==
  [k \in {x \in DOMAIN props : ~(x \in VolatileKeys(s) /\ props[x] = None)}
     |-> props[k]]

\* only the values of the headers the record has an entry for
RowValuesPresentOnly(s, props) ==
  LET present == SelectSeq(SHEET_HEADERS(s), LAMBDA h : h \in DOMAIN props)
  IN  [i \in 1..Len(present) |-> props[present[i]]]

\* row_values = [props.get(h, "") for h in SHEET_HEADERS]
RowValues(s, props) ==
  [i \in 1..Len(SHEET_HEADERS(s)) |-> Get(props, SHEET_HEADERS(s)[i], Blank)]

\* ---------------------------------------------------------------- planner
\* end_d_inclusive, from today_local() and INCLUDE_TODAY
PlanEnd(today_d, include_today) ==
  IF include_today THEN today_d ELSE today_d - 1

\* the window taken one day too long
PlanStartOneMore(end_d, wd) == end_d - wd

\* start_d = end_d_inclusive - timedelta(days=window_days - 1)
PlanStart(end_d, wd) == end_d - (wd - 1)

\* the bound main() hands to daterange: end_d_inclusive + timedelta(days=1)
PlanEndExclusive(end_d) == end_d + 1

\* the generator yielding the same date again
NextDaySame(cur_d) == cur_d

\* daterange: cur += timedelta(days=1)
NextDay(cur_d) == cur_d + 1

\* the loop test letting the end bound itself through
daterange_more_inclusive(cur_d, end_exclusive) == cur_d <= end_exclusive

\* daterange's loop test
daterange_more(cur_d, end_exclusive) == cur_d < end_exclusive

\* ---------------------------------------------------------------- control
\* the worksheet prepared before the provider login
StepAfterSheetFirst(p) ==
  CASE p = "config" -> "gspread"
    [] p = "gspread" -> "open"
    [] p = "open" -> "login"
    [] p = "login" -> "index"
    [] p = "index" -> "intensity"
    [] p = "intensity" -> "hrv"
    [] p = "hrv" -> "activities"
    [] OTHER -> "loop"

\* the order of main()'s steps up to the loop
StepAfter(p) ==
  CASE p = "config" -> "login"
    [] p = "login" -> "gspread"
    [] p = "gspread" -> "open"
    [] p = "open" -> "index"
    [] p = "index" -> "intensity"
    [] p = "intensity" -> "hrv"
    [] p = "hrv" -> "activities"
    [] OTHER -> "loop"

\* a provider call made outside any try
EscapesUncaught(outcome) == outcome = "raise"

\* try/except around a provider call: does its exception leave the adapter?
Escapes(outcome) == FALSE

\* what the adapter hands back for a provider outcome
Guarded(outcome) == IF outcome = "raise" THEN None ELSE outcome

\* a rejected write caught and passed over
WriteSwallowed(write_ok) == FALSE

\* ws.update / ws.append_row in the loop are called outside any try
WriteEscapes(write_ok) == ~write_ok

\* the date object looked up among the string keys: never found
InIndexUnmatched(idx, d_iso) == FALSE

\* `if d_iso in date_index`
InIndex(idx, d_iso) == d_iso \in DOMAIN idx

\* the appended key registered at the row above the appended one
RegisterAppendAbove(idx, d_iso, new_rows, read_ok) ==
  IF read_ok THEN (d_iso :> Len(col_values(new_rows)) - 1) @@ idx ELSE idx

\* after an append: last = len(ws.col_values(1)); date_index[d_iso] = last,
\* inside try/except: pass
RegisterAppend(idx, d_iso, new_rows, read_ok) ==
  IF read_ok THEN (d_iso :> Len(col_values(new_rows))) @@ idx ELSE idx

\* ---------------------------------------------------------------- state
VARIABLES
  script,            \* which revision of the script owns the worksheet
  reports,           \* the window-level sources the provider has data for
  today,             \* today_local(), as a day number
  ws_exists,         \* the worksheet exists in the spreadsheet
  col_count,         \* ws.col_count
  rows,              \* the worksheet's rows (row 1 is the header)
  runs,              \* runs started so far
  pc,                \* position of the current run in main()
  cause,             \* why the run ended early ("" while it has not)
  include_today,     \* INCLUDE_TODAY != '0'
  end_d_inclusive, window_days, start_d,
  date_index, intensity_map, hrv_map, act_by_date,
  d,                 \* the loop's current date
  steps,             \* what fetch_steps_for_date returned for d
  updates, appends,
  planned,           \* history: the dates daterange has yielded in this run
  fetched,           \* history: a metric fetch was issued in this run
  wrote,             \* history: a store write was issued in this run
  raised,            \* history: the provider calls of the last step that raised
                     \* (the per-date calls other than steps as "per_date")
  rows0,             \* history: number of rows when the index was built
  cur,               \* history: date -> what this run fetched and wrote
  prev,              \* history: the same for the previous run, if it completed
  provided,          \* history: the list g.get_activities returned in this run
  log,               \* history: the run's index build, fetches and writes, in order
  held,              \* history: the window days the provider held a value for
                     \* when the list call of the reporting source (intensity
                     \* minutes or HRV) returned
  source,            \* the sleepScores payload handed to _sleep_scores_from
  scores             \* what _sleep_scores_from returned

vars == <<script, reports, today, ws_exists, col_count, rows, runs, pc, cause,
          include_today, end_d_inclusive, window_days, start_d,
          date_index, intensity_map, hrv_map, act_by_date,
          d, steps, updates, appends,
          planned, fetched, wrote, raised, rows0, cur, prev,
          provided, log, held, source, scores>>

sheet == <<ws_exists, col_count, rows>>
plan == <<include_today, end_d_inclusive, window_days, start_d>>
caches == <<intensity_map, hrv_map, act_by_date>>
loopv == <<d, steps>>
counters == <<updates, appends>>
history == <<rows0, cur, prev>>
sleepv == <<source, scores>>

\* a header left by an earlier revision of the script (wider than either)
StaleHeader == <<"Date", "weekday", "Steps", "HRV", "BMI", "has_steps">>

\* the worksheets a first run can find
InitSheets(s, today_d) ==
  LET H == SHEET_HEADERS(s)
      full == BuildProps(iso_date(today_d - 1), 1, "v1", "v1", "v1")
  IN  { [exists |-> FALSE, cols |-> 0, rows |-> <<>>],
        [exists |-> TRUE, cols |-> 3, rows |-> <<>>],
        [exists |-> TRUE, cols |-> HeaderCount(s),
         rows |-> <<H, RowValues(s, full)>>],
        [exists |-> TRUE, cols |-> HeaderCount(s) + 1,
         rows |-> <<StaleHeader,
                    <<iso_date(today_d - 1), "Monday", "v1", "v1",
                      "v1", "v1">> >>] }

NoRun == [done |-> FALSE, first |-> 0, last |-> 0, dates |-> EmptyDict]

\* the locals of main() before it has run
FreshRun ==
  /\ pc = "config"
  /\ cause = ""
  /\ include_today = TRUE
  /\ end_d_inclusive = 0 /\ window_days = 0 /\ start_d = 0
  /\ date_index = EmptyDict
  /\ intensity_map = EmptyDict /\ hrv_map = EmptyDict
  /\ act_by_date = EmptyDict
  /\ d = 0 /\ steps = None
  /\ updates = 0 /\ appends = 0
  /\ planned = <<>>
  /\ fetched = FALSE /\ wrote = FALSE /\ raised = {}
  /\ rows0 = 0
  /\ cur = EmptyDict
  /\ provided = <<>> /\ log = <<>>
  /\ held = {}

Init ==
  /\ script \in Scripts
  /\ reports \in {{"hrv"}, {"intensity"}, {"activities"}}
  /\ today = MaxWindow + 2
  /\ \E sh \in InitSheets(script, today) :
       /\ ws_exists = sh.exists
       /\ col_count = sh.cols
       /\ rows = sh.rows
  /\ runs = 1
  /\ prev = NoRun
  /\ FreshRun
  /\ source = EmptyItem /\ scores = EmptyDict

\* one entry of the run's history: what was done, and for which date
\* (day 0 for the steps made once per run)
Event(what, day) == [ev |-> what, day |-> day]

\* the run ends early: sys.exit(1) ("exited") or an uncaught exception
Stop(how, why) == pc' = how /\ cause' = why

\* main(), lines 451-465: the store identifier and the window
ReadConfig ==
  /\ pc = "config"
  /\ \E id_present \in BOOLEAN, inc \in BOOLEAN,
        wd_ok \in BOOLEAN, wd \in (0 - 1)..MaxWindow :
       IF ~id_present
       THEN Stop("exited", "config") /\ UNCHANGED plan
       ELSE IF ~wd_ok
       THEN /\ Stop("aborted", "config")
            /\ include_today' = inc
            /\ end_d_inclusive' = PlanEnd(today, inc)
            /\ UNCHANGED <<window_days, start_d>>
       ELSE /\ include_today' = inc
            /\ end_d_inclusive' = PlanEnd(today, inc)
            /\ window_days' = wd
            /\ start_d' = PlanStart(end_d_inclusive', wd)
            /\ pc' = StepAfter("config") /\ UNCHANGED cause
  /\ raised' = {}
  /\ UNCHANGED <<sleepv, held, provided, log, script, reports, today, sheet, runs, date_index, caches, loopv,
                 counters, planned, fetched, wrote, history>>

\* login_to_garmin: missing credentials or a failed login end the run
login_to_garmin ==
  /\ pc = "login"
  /\ \E creds \in BOOLEAN, login_ok \in BOOLEAN :
       IF ~creds THEN Stop("exited", "config")
       ELSE IF ~login_ok THEN Stop("exited", "login")
       ELSE pc' = StepAfter("login") /\ UNCHANGED cause
  /\ raised' = {}
  /\ UNCHANGED <<sleepv, held, provided, log, script, reports, today, sheet, runs, plan, date_index, caches, loopv,
                 counters, planned, fetched, wrote, history>>

\* _gspread_client: the service-account credentials
gspread_client ==
  /\ pc = "gspread"
  /\ \E creds \in {"file", "json", "badjson", "none"} :
       IF creds \in {"badjson", "none"} THEN Stop("exited", "config")
       ELSE pc' = StepAfter("gspread") /\ UNCHANGED cause
  /\ raised' = {}
  /\ UNCHANGED <<sleepv, held, provided, log, script, reports, today, sheet, runs, plan, date_index, caches, loopv,
                 counters, planned, fetched, wrote, history>>

\* add_worksheet(rows=2000, cols=max(50, len(SHEET_HEADERS)))
NewSheetMinCols == 50

\* _open_or_create_worksheet
open_or_create_worksheet ==
  /\ pc = "open"
  /\ LET H == SHEET_HEADERS(script) IN
     \E open_ok \in BOOLEAN, read_ok \in BOOLEAN, resize_ok \in BOOLEAN :
       IF ~open_ok
       THEN Stop("aborted", "open") /\ UNCHANGED <<sheet, wrote>>
       ELSE IF ~ws_exists
       THEN /\ ws_exists' = TRUE
            /\ col_count' =
                 (IF NewSheetMinCols > HeaderCount(script)
                  THEN NewSheetMinCols ELSE HeaderCount(script))
            /\ rows' = ws_append_row(<<>>, H)
            /\ wrote' = TRUE
            /\ pc' = StepAfter("open") /\ UNCHANGED cause
       ELSE LET existing == IF read_ok THEN row_values_1(rows) ELSE <<>> IN
            IF existing # H
            THEN /\ col_count' =
                      (IF col_count < HeaderCount(script)
                       THEN HeaderCount(script)
                       ELSE IF col_count > HeaderCount(script) /\ resize_ok
                       THEN HeaderCount(script)
                       ELSE col_count)
                 /\ rows' = ws_update(
                      IF col_count > HeaderCount(script) /\ resize_ok
                      THEN ws_resize(rows, Len(H)) ELSE rows, 1, H)
                 /\ wrote' = TRUE
                 /\ UNCHANGED ws_exists
                 /\ pc' = StepAfter("open") /\ UNCHANGED cause
            ELSE /\ UNCHANGED <<sheet, wrote>>
                 /\ pc' = StepAfter("open") /\ UNCHANGED cause
  /\ raised' = {}
  /\ UNCHANGED <<sleepv, held, provided, log, script, reports, today, runs, plan, date_index, caches, loopv,
                 counters, planned, fetched, rows0, cur, prev>>

\* date_index = _read_date_index(ws); a failed column read gives {}
ReadDateIndex ==
  /\ pc = "index"
  /\ \E read_ok \in BOOLEAN :
       date_index' = read_date_index(IF read_ok THEN col_values(rows) ELSE <<>>)
  /\ rows0' = Len(rows)
  /\ log' = Append(log, Event("index", 0))
  /\ pc' = StepAfter("index")
  /\ raised' = {}
  /\ UNCHANGED <<sleepv, held, provided, script, reports, today, sheet, runs, cause, plan, caches, loopv,
                 counters, planned, fetched, wrote, cur, prev>>

\* the days garth's list(period=n) covers: the n days ending today
ListDays(today_d, n) == (today_d - n + 1)..today_d

\* garth's X.list(period=n): the rows of the days it covers, out of the
\* days the provider holds a value for
list_period(vals, today_d, n) ==
  LET S == DOMAIN vals \cap ListDays(today_d, n)
  IN  IF S = {} THEN EmptyDict ELSE [x \in S |-> vals[x]]

\* map_intensity_last_n / map_hrv_last_n: {date key -> value} of the rows
\* returned, {} when the call raises
map_last_n(ok, vals) ==
  IF ~ok THEN EmptyDict
  ELSE [k \in {iso_date(x) : x \in DOMAIN vals} |->
          vals[CHOOSE x \in DOMAIN vals : iso_date(x) = k]]

\* intensity_map = map_intensity_last_n(window_days)
MapIntensity ==
  /\ pc = "intensity"
  /\ \E ok \in BOOLEAN,
        S \in SUBSET (IF "intensity" \in reports
                      THEN start_d..end_d_inclusive ELSE {}) :
       \E vals \in [S -> Values] :
         /\ (~ok => S = {})
         /\ IF Escapes(IF ok THEN "ok" ELSE "raise")
            THEN Stop("aborted", "fetch") /\ UNCHANGED intensity_map
            ELSE /\ intensity_map' =
                      map_last_n(ok, list_period(vals, today, window_days))
                 /\ pc' = StepAfter("intensity") /\ UNCHANGED cause
         /\ raised' = (IF ok THEN {} ELSE {"intensity"})
         /\ held' = (IF "intensity" \in reports THEN S ELSE held)
  /\ fetched' = TRUE
  /\ log' = Append(log, Event("intensity", 0))
  /\ UNCHANGED <<sleepv, provided, script, reports, today, sheet, runs, plan, date_index, hrv_map,
                 act_by_date, loopv, counters, planned, wrote, history>>

\* hrv_map = map_hrv_last_n(window_days)
MapHrv ==
  /\ pc = "hrv"
  /\ \E ok \in BOOLEAN,
        S \in SUBSET (IF "hrv" \in reports
                      THEN start_d..end_d_inclusive ELSE {}) :
       \E vals \in [S -> Values] :
         /\ (~ok => S = {})
         /\ IF Escapes(IF ok THEN "ok" ELSE "raise")
            THEN Stop("aborted", "fetch") /\ UNCHANGED hrv_map
            ELSE /\ hrv_map' =
                      map_last_n(ok, list_period(vals, today, window_days))
                 /\ pc' = StepAfter("hrv") /\ UNCHANGED cause
         /\ raised' = (IF ok THEN {} ELSE {"hrv"})
         /\ held' = (IF "hrv" \in reports THEN S ELSE held)
  /\ fetched' = TRUE
  /\ log' = Append(log, Event("hrv", 0))
  /\ UNCHANGED <<sleepv, provided, script, reports, today, sheet, runs, plan, date_index, intensity_map,
                 act_by_date, loopv, counters, planned, wrote, history>>

\* the activity lists the provider can return for a run
ActLists(today_d, first, last) ==
  {<<>>} \cup
  { <<[day |-> x, type |-> "run", name |-> "a"]>> :
      x \in {0, first - 1, last} }

\* activities = fetch_activities_bulk(g, start_d);
\* act_by_date = aggregate_activities_by_date(activities); then the loop
\* creates its generator: d = start_d
FetchActivities ==
  /\ pc = "activities"
  /\ \E ok \in BOOLEAN, acts \in ActLists(today, start_d, end_d_inclusive) :
       /\ (~ok \/ "activities" \notin reports => acts = <<>>)
       /\ IF Escapes(IF ok THEN "ok" ELSE "raise")
          THEN Stop("aborted", "fetch") /\ UNCHANGED <<act_by_date, d>>
          ELSE /\ act_by_date' = aggregate_activities_by_date(
                                   fetch_activities_bulk(acts, start_d))
               /\ d' = start_d
               /\ pc' = StepAfter("activities") /\ UNCHANGED cause
       /\ raised' = (IF ok THEN {} ELSE {"activities"})
       /\ provided' = acts
  /\ fetched' = TRUE
  /\ log' = Append(log, Event("activities", 0))
  /\ UNCHANGED <<sleepv, held, script, reports, today, sheet, runs, plan, date_index, intensity_map,
                 hrv_map, steps, counters, planned, wrote, history>>

\* for d in daterange(start_d, end_d_inclusive + 1): the generator's next
\* date, or the end of the loop and the final summary
LoopHead ==
  /\ pc = "loop"
  /\ IF daterange_more(d, PlanEndExclusive(end_d_inclusive))
     THEN /\ pc' = "fetch"
          /\ planned' = Append(planned, d)
     ELSE /\ pc' = "done"
          /\ UNCHANGED planned
  /\ raised' = {}
  /\ UNCHANGED <<sleepv, held, provided, log, script, reports, today, sheet, runs, cause, plan, date_index, caches,
                 d, steps, counters, fetched, wrote, history>>

\* the per-date provider calls of one loop iteration (fetch_steps_for_date,
\* fetch_sleep_for_date, the garth .get calls), each in its own try/except
FetchDate ==
  /\ pc = "fetch"
  /\ LET names == {PerDateAdapters(script)[i] :
                     i \in 1..Len(PerDateAdapters(script))}
     IN  \E steps_out \in {"raise", None} \cup Values,
            failing \in {{}} \cup {{a} : a \in names \ {"steps"}} :
           LET outcome == [a \in names |->
                             IF a = "steps" THEN steps_out
                             ELSE IF a \in failing THEN "raise" ELSE "ok"]
           IN  /\ IF \E a \in names : Escapes(outcome[a])
                  THEN Stop("aborted", "fetch") /\ UNCHANGED steps
                  ELSE /\ steps' = Guarded(outcome["steps"])
                       /\ pc' = "upsert" /\ UNCHANGED cause
               /\ raised' = {IF a = "steps" THEN "steps" ELSE "per_date" :
                                a \in {x \in names : outcome[x] = "raise"}}
  /\ fetched' = TRUE
  /\ log' = Append(log, Event("fetch", d))
  /\ UNCHANGED <<sleepv, held, provided, script, reports, today, sheet, runs, plan, date_index, caches, d,
                 counters, planned, wrote, history>>

\* the cell at row r, column c ("" where nothing was written)
Cell(rs, r, c) ==
  IF r >= 1 /\ r <= Len(rs) /\ c <= Len(rs[r]) THEN rs[r][c] ELSE Blank

\* the cells of row r under the header's columns
SchemaCells(s, rs, r) == [c \in 1..Len(SHEET_HEADERS(s)) |-> Cell(rs, r, c)]

\* the props main() builds for date cur_d from what was fetched
PropsFor(cur_d, acts, imap, hmap, steps_v) ==
  BuildProps(iso_date(cur_d), Get(acts, iso_date(cur_d), NoActivity).count, steps_v,
             Get(imap, iso_date(cur_d), None), Get(hmap, iso_date(cur_d), None))

\* props, the volatile pop, row_values and the upsert by Date
Upsert ==
  /\ pc = "upsert"
  /\ LET d_iso == iso_date(d)
         props == PropsFor(d, act_by_date, intensity_map, hrv_map, steps)
         row_values == RowValues(script, PopAbsent(script, props))
     IN  \E write_ok \in BOOLEAN, read_ok \in BOOLEAN :
           IF InIndex(date_index, d_iso)
           THEN /\ read_ok
                /\ IF WriteEscapes(write_ok)
                   THEN /\ Stop("aborted", "write")
                        /\ UNCHANGED <<rows, updates, cur, log>>
                   ELSE /\ rows' = (IF write_ok
                                    THEN ws_update(rows, date_index[d_iso],
                                                   row_values)
                                    ELSE rows)
                        /\ updates' = updates + 1
                        /\ log' = Append(log, Event("write", d))
                        /\ cur' = (d_iso :>
                                     [op |-> "update", props |-> props,
                                      row |-> SchemaCells(script, rows',
                                                     date_index[d_iso])])
                                  @@ cur
                        /\ pc' = "sleep" /\ UNCHANGED cause
                /\ UNCHANGED <<date_index, appends>>
           ELSE /\ Len(rows) < MaxRows
                /\ IF WriteEscapes(write_ok)
                   THEN /\ read_ok
                        /\ Stop("aborted", "write")
                        /\ UNCHANGED <<rows, date_index, appends, cur, log>>
                   ELSE /\ rows' = (IF write_ok
                                    THEN ws_append_row(rows, row_values)
                                    ELSE rows)
                        /\ date_index' =
                             RegisterAppend(date_index, d_iso, rows', read_ok)
                        /\ appends' = appends + 1
                        /\ log' = Append(log, Event("write", d))
                        /\ cur' = (d_iso :>
                                     [op |-> "append", props |-> props,
                                      row |-> SchemaCells(script, rows',
                                                     Len(rows'))])
                                  @@ cur
                        /\ pc' = "sleep" /\ UNCHANGED cause
                /\ UNCHANGED updates
  /\ wrote' = TRUE
  /\ raised' = {}
  /\ UNCHANGED <<sleepv, held, provided, script, reports, today, ws_exists, col_count, runs, plan, caches,
                 loopv, planned, fetched, rows0, prev>>

\* time.sleep(0.05), then the generator's d += timedelta(days=1)
Sleep ==
  /\ pc = "sleep"
  /\ d' = NextDay(d)
  /\ pc' = "loop"
  /\ raised' = {}
  /\ UNCHANGED <<sleepv, held, provided, log, script, reports, today, sheet, runs, cause, plan, date_index, caches,
                 steps, counters, planned, fetched, wrote, history>>

\* the process has ended (summary printed, sys.exit or traceback); the
\* scheduler starts the script again against the same worksheet
NextRun ==
  /\ pc \in {"done", "exited", "aborted"}
  /\ runs < MaxRuns
  /\ runs' = runs + 1
  /\ prev' = (IF pc = "done"
              THEN [done |-> TRUE, first |-> start_d,
                    last |-> end_d_inclusive, dates |-> cur]
              ELSE NoRun)
  /\ pc' = "config"
  /\ cause' = ""
  /\ include_today' = TRUE
  /\ end_d_inclusive' = 0 /\ window_days' = 0 /\ start_d' = 0
  /\ date_index' = EmptyDict
  /\ intensity_map' = EmptyDict /\ hrv_map' = EmptyDict
  /\ act_by_date' = EmptyDict
  /\ d' = 0 /\ steps' = None
  /\ updates' = 0 /\ appends' = 0
  /\ planned' = <<>>
  /\ fetched' = FALSE /\ wrote' = FALSE /\ raised' = {}
  /\ rows0' = 0
  /\ cur' = EmptyDict
  /\ provided' = <<>> /\ log' = <<>>
  /\ held' = {}
  /\ UNCHANGED <<sleepv, script, reports, today, sheet>>

Next ==
  \/ ReadConfig
  \/ login_to_garmin
  \/ gspread_client
  \/ open_or_create_worksheet
  \/ ReadDateIndex
  \/ MapIntensity
  \/ MapHrv
  \/ FetchActivities
  \/ LoopHead
  \/ FetchDate
  \/ Upsert
  \/ Sleep
  \/ NextRun

Spec == Init /\ [][Next]_vars

\* ---------------------------------------------------------------- one run to its end
\* the steps of one run of main()
NextOneRun ==
  \/ ReadConfig
  \/ login_to_garmin
  \/ gspread_client
  \/ open_or_create_worksheet
  \/ ReadDateIndex
  \/ MapIntensity
  \/ MapHrv
  \/ FetchActivities
  \/ LoopHead
  \/ FetchDate
  \/ Upsert
  \/ Sleep

\* main() is one sequential thread and every call in it returns or raises:
\* a run that can take a step takes it
SpecOneRun == Init /\ [][NextOneRun]_vars /\ WF_vars(NextOneRun)

\* ---------------------------------------------------------------- planner runs
\* largest WINDOW_DAYS tried on the planner alone
MaxPlanDays == 6

\* the planner on its own: any today, flag and window length
InitPlan ==
  /\ script = "daily"
  /\ reports = {"hrv"}
  /\ today \in (MaxPlanDays + 2)..(MaxPlanDays + 4)
  /\ ws_exists = FALSE /\ col_count = 0 /\ rows = <<>>
  /\ runs = 1
  /\ prev = NoRun
  /\ FreshRun
  /\ source = EmptyItem /\ scores = EmptyDict

\* lines 463-465, then the loop's generator is created
PlanWindow ==
  /\ pc = "config"
  /\ \E inc \in BOOLEAN, wd \in (0 - 1)..MaxPlanDays :
       /\ include_today' = inc
       /\ end_d_inclusive' = PlanEnd(today, inc)
       /\ window_days' = wd
       /\ start_d' = PlanStart(end_d_inclusive', wd)
       /\ d' = start_d'
  /\ pc' = "loop"
  /\ UNCHANGED <<sleepv, held, provided, log, script, reports, today, sheet, runs, cause, date_index,
                 caches, steps, counters, planned, fetched, wrote, raised,
                 history>>

\* daterange: yield d and step to the next day, or stop
PlanYield ==
  /\ pc = "loop"
  /\ IF daterange_more(d, PlanEndExclusive(end_d_inclusive))
     THEN /\ planned' = Append(planned, d)
          /\ d' = NextDay(d)
          /\ UNCHANGED pc
     ELSE /\ pc' = "done"
          /\ UNCHANGED <<planned, d>>
  /\ UNCHANGED <<sleepv, held, provided, log, script, reports, today, sheet, runs, cause, plan, date_index,
                 caches, steps, counters, fetched, wrote, raised, history>>

NextPlan == PlanWindow \/ PlanYield

SpecPlan == InitPlan /\ [][NextPlan]_vars

\* ---------------------------------------------------------------- rollup runs
\* longest activity list the provider returns to the rollup alone
MaxEvents == 3

\* the activities the provider can list: undated, before the window, in it
\* and after it; with or without a type and a name; with or without the
\* training figures
ActivityShapes(today_d) ==
  { IF load
    THEN [day |-> x, type |-> t, name |-> n,
          distance |-> 5000, duration |-> 1000, calories |-> 300,
          te |-> "TEMPO"]
    ELSE [day |-> x, type |-> t, name |-> n] :
      x \in {0} \cup ((today_d - 2)..today_d),
      t \in {None} \cup {TypeKeys[i] : i \in 1..Len(TypeKeys)},
      n \in {Blank, "a"},
      load \in BOOLEAN }

\* the rollup on its own: yesterday as the one-day window, any activity list
InitRollup ==
  /\ script = "daily"
  /\ reports = {"activities"}
  /\ today = MaxWindow + 2
  /\ ws_exists = FALSE /\ col_count = 0 /\ rows = <<>>
  /\ runs = 1
  /\ prev = NoRun
  /\ pc = "activities"
  /\ cause = ""
  /\ include_today = FALSE
  /\ end_d_inclusive = PlanEnd(today, FALSE)
  /\ window_days = 1
  /\ start_d = PlanStart(end_d_inclusive, 1)
  /\ date_index = EmptyDict
  /\ intensity_map = EmptyDict /\ hrv_map = EmptyDict
  /\ act_by_date = EmptyDict
  /\ d = 0 /\ steps = None
  /\ updates = 0 /\ appends = 0
  /\ planned = <<>>
  /\ fetched = FALSE /\ wrote = FALSE /\ raised = {}
  /\ rows0 = 0
  /\ cur = EmptyDict
  /\ provided \in UNION {[1..n -> ActivityShapes(today)] : n \in 0..MaxEvents}
  /\ log = <<>>
  /\ held = {}
  /\ source = EmptyItem /\ scores = EmptyDict

\* activities = fetch_activities_bulk(g, start_d);
\* act_by_date = aggregate_activities_by_date(activities)
RollupActivities ==
  /\ pc = "activities"
  /\ act_by_date' = aggregate_activities_by_date(
                      fetch_activities_bulk(provided, start_d))
  /\ pc' = "done"
  /\ UNCHANGED <<sleepv, held, provided, log, script, reports, today, sheet, runs,
                 cause, plan, date_index, intensity_map, hrv_map, loopv,
                 counters, planned, fetched, wrote, raised, history>>

NextRollup == RollupActivities

SpecRollup == InitRollup /\ [][NextRollup]_vars

\* ---------------------------------------------------------------- sleep score runs
\* the entries a sleepScores payload can hold under one key
ScoreItems ==
  { [kind |-> "dict",
     f |-> IF K = {} THEN EmptyDict
           ELSE [k \in K |->
                   CASE k = "score" -> 7
                     [] k = "value" -> 8
                     [] k = "percentage" -> 9
                     [] k = "qualifierKey" -> qk
                     [] OTHER -> "FAIR"]] :
       K \in SUBSET {"score", "value", "percentage", "qualifierKey",
                     "qualifier"},
       qk \in {None, "GOOD"} }
  \cup {[kind |-> "other", f |-> EmptyDict]}

\* the deep % entries, under either spelling
DeepItems ==
  { [kind |-> "dict", f |-> [k \in {"score", "qualifierKey"} |->
                               IF k = "score" THEN 21 ELSE "GOOD"]],
    [kind |-> "other", f |-> EmptyDict] }

\* the sleepScores payloads handed to _sleep_scores_from
SleepPayloads ==
  { [kind |-> "dict", f |-> aw @@ dp] :
      aw \in {EmptyDict} \cup {("awakeCount" :> it) : it \in ScoreItems},
      dp \in UNION {[K -> DeepItems] :
                      K \in SUBSET {"deepPercentage", "deep_percentage"}} }
  \cup {[kind |-> "other", f |-> EmptyDict]}

\* the score extraction on its own
InitSleep ==
  /\ script = "daily"
  /\ reports = {"hrv"}
  /\ today = MaxWindow + 2
  /\ ws_exists = FALSE /\ col_count = 0 /\ rows = <<>>
  /\ runs = 1
  /\ prev = NoRun
  /\ FreshRun
  /\ source \in SleepPayloads
  /\ scores = EmptyDict

\* scores = _sleep_scores_from(data), inside fetch_sleep_for_date
SleepScores ==
  /\ pc = "config"
  /\ scores' = sleep_scores_from(source)
  /\ pc' = "done"
  /\ UNCHANGED <<source, held, provided, log, script, reports, today, sheet, runs,
                 cause, plan, date_index, caches, loopv, counters, planned,
                 fetched, wrote, raised, history>>

NextSleep == SleepScores

SpecSleep == InitSleep /\ [][NextSleep]_vars

\* ---------------------------------------------------------------- properties
\* the column of header title k
ColOf(s, k) == CHOOSE i \in 1..Len(SHEET_HEADERS(s)) : SHEET_HEADERS(s)[i] = k

\* the run has ended without reaching its summary
EndedEarly == pc \in {"exited", "aborted"}

\* the dates of the planned window
WindowKeys == {iso_date(x) : x \in start_d..end_d_inclusive}

\* C1: non-destructive merge.  For every date and volatile field, if the
\* previous run fetched and stored a value V and this run's fetch for the
\* date returned absent, the cell holds V after this run's upsert of the date.
C1_NonDestructiveMerge ==
  \A k \in DOMAIN cur \cap DOMAIN prev.dates :
    \A f \in {"Intensity Minutes", "HRV"} :
      (prev.dates[k].props[f] # None /\ cur[k].props[f] = None)
        => cur[k].row[ColOf(script, f)] = prev.dates[k].props[f]

\* C2: idempotence.  When two consecutive runs fetch identical data for a
\* date, the row the second run leaves for it equals, cell for cell, the row
\* the first run left, whether the first run appended or updated it.
C2_Idempotent ==
  \A k \in DOMAIN cur \cap DOMAIN prev.dates :
    cur[k].props = prev.dates[k].props => cur[k].row = prev.dates[k].row

C2_Witness ==
  \E k \in DOMAIN cur \cap DOMAIN prev.dates :
    /\ cur[k].props = prev.dates[k].props
    /\ cur[k].props["Steps"] # None
    /\ prev.dates[k].op = "append"
    /\ cur[k].op = "update"

\* C3: date-key uniqueness.  Every date key appears in at most one row of
\* the worksheet, after any sequence of runs.
C3_DateKeysUnique ==
  \A i, j \in 2..Len(rows) :
    (i # j /\ Cell(rows, i, 1) # Blank) => Cell(rows, i, 1) # Cell(rows, j, 1)

\* C4: convergence on re-run.  A run over the same window as the completed
\* run before it makes no append and leaves the number of rows unchanged.
C4_RerunOnlyUpdates ==
  (pc = "done" /\ prev.done /\ prev.first = start_d
     /\ prev.last = end_d_inclusive)
    => (appends = 0 /\ Len(rows) = rows0)

\* C5: upsert branch selection.  A record whose date key is in the RowIndex
\* makes one update, of the row the index holds for the key, and appends
\* nothing; a record whose key is not in the index appends one row and
\* writes no existing row.  A rejected write changes no row.
C5_BranchSelection ==
  [][ /\ (pc = "upsert" /\ pc' = "sleep") =>
           LET k == iso_date(d) IN
           IF k \in DOMAIN date_index
           THEN /\ updates' = updates + 1 /\ appends' = appends
                /\ Len(rows') = Len(rows)
                /\ \A i \in 1..Len(rows) :
                     i # date_index[k] => rows'[i] = rows[i]
                /\ Cell(rows', date_index[k], 1) = k
           ELSE /\ appends' = appends + 1 /\ updates' = updates
                /\ Len(rows') = Len(rows) + 1
                /\ \A i \in 1..Len(rows) : rows'[i] = rows[i]
                /\ Cell(rows', Len(rows'), 1) = k
      /\ (pc = "upsert" /\ pc' = "aborted") => rows' = rows
    ]_vars

C5_Witness == pc = "sleep" /\ updates >= 1 /\ appends >= 1

\* C6: append registration.  Right after a record for date key k is
\* appended, the RowIndex holds k at the position of the appended row.
C6_AppendRegistered ==
  (pc = "sleep" /\ cur[iso_date(d)].op = "append")
    => (/\ iso_date(d) \in DOMAIN date_index
        /\ date_index[iso_date(d)] = Len(rows))

\* C7: a rejected update or append for one date does not end the run: the
\* later dates are still processed and the final summary is reached.
C7_WriteFailureIsolated == EndedEarly => cause # "write"

\* C8: adapter failure isolation.  A provider call that raises leaves the
\* run going with its fields absent; once fetching has begun only a rejected
\* store write ends a run early, and a run that reaches its summary has
\* written the row of every date of its window.
C8_AdapterFailureIsolated ==
  /\ raised # {} => ~EndedEarly
  /\ "intensity" \in raised => intensity_map = EmptyDict
  /\ "hrv" \in raised => hrv_map = EmptyDict
  /\ "activities" \in raised => act_by_date = EmptyDict
  /\ "steps" \in raised => steps = None
  /\ (EndedEarly /\ fetched) => cause = "write"
  /\ pc = "sleep" => cur[iso_date(d)].props["Steps"] = steps
  /\ pc = "done" => DOMAIN cur = WindowKeys

C8_Witness ==
  /\ pc = "upsert"
  /\ raised = {"steps", "per_date"}
  /\ d < end_d_inclusive

\* C9: configuration errors are fatal before any work.  A run ended by a
\* missing or malformed configuration value has issued no metric fetch and
\* no store write, the header row included.
C9_ConfigErrorBeforeWork ==
  (EndedEarly /\ cause = "config") => (~fetched /\ ~wrote)

C9_Witness ==
  /\ pc = "exited" /\ cause = "config"
  /\ window_days >= 1
  /\ ~ws_exists

\* C10: window planner.  For windowDays >= 1 the planned sequence has
\* exactly windowDays consecutive ascending dates, ends today when today is
\* included and yesterday when not, and starts at end - (windowDays - 1).
C10_WindowPlanner ==
  (pc = "done" /\ window_days >= 1) =>
    /\ Len(planned) = window_days
    /\ \A i \in 1..(Len(planned) - 1) : planned[i + 1] = planned[i] + 1
    /\ planned[Len(planned)] = (IF include_today THEN today ELSE today - 1)
    /\ planned[1] = planned[Len(planned)] - (window_days - 1)

C10_Witness ==
  /\ pc = "done"
  /\ window_days = 5 /\ ~include_today
  /\ planned = <<today - 5, today - 4, today - 3, today - 2, today - 1>>

\* the provider's events that carry date key dt, in event order
EventsOf(dt) ==
  SelectSeq(provided, LAMBDA a : a.day # 0 /\ iso_date(a.day) = dt)

\* the type tags of the events of date key dt, in event order
TagsOf(dt) ==
  LET E == SelectSeq(EventsOf(dt), LAMBDA a : a.type # None)
  IN  [i \in 1..Len(E) |-> E[i].type]

\* how often tag t occurs in tags, and where it occurs first
Occurrences(tags, t) == Len(SelectSeq(tags, LAMBDA x : x = t))
FirstAt(tags, t) ==
  CHOOSE i \in 1..Len(tags) :
    tags[i] = t /\ \A j \in 1..(i - 1) : tags[j] # t

\* C11: primary-type determinism.  For every date group with at least one
\* type tag, the primary type is a tag of the group with the largest number
\* of occurrences, and among the tags tied for it the one first seen.
C11_PrimaryType ==
  pc = "done" =>
    \A dt \in DOMAIN act_by_date :
      LET tags == TagsOf(dt)
          T == {tags[i] : i \in 1..Len(tags)}
          p == act_by_date[dt].primary
      IN  tags # <<>> =>
            /\ p \in T
            /\ \A t \in T : Occurrences(tags, p) >= Occurrences(tags, t)
            /\ \A t \in T \ {p} :
                 Occurrences(tags, t) = Occurrences(tags, p)
                   => FirstAt(tags, p) < FirstAt(tags, t)

\* a 1-1 tie resolved for the tag seen first, though it sorts last
C11_Witness ==
  /\ pc = "done"
  /\ \E dt \in DOMAIN act_by_date :
       /\ TagsOf(dt) = <<"run", "bike">>
       /\ act_by_date[dt].primary = "run"

\* the distinct members of S as the one strictly ascending sequence
AscendingSeq(S) ==
  CHOOSE q \in [1..Cardinality(S) -> S] :
    \A i \in 1..Cardinality(S), j \in 1..Cardinality(S) :
      i < j => Rank(q[i]) < Rank(q[j])

\* C12: unique-type ordering.  For every date group the unique-types output
\* is the distinct type tags of the group, each once, in ascending
\* alphabetical order, joined by single spaces ("" when there is no tag).
C12_UniqueTypes ==
  pc = "done" =>
    \A dt \in DOMAIN act_by_date :
      LET tags == TagsOf(dt)
          T == {tags[i] : i \in 1..Len(tags)}
      IN  act_by_date[dt].types_unique =
            (IF T = {} THEN "" ELSE JoinSp(AscendingSeq(T)))

C12_Witness ==
  /\ pc = "done"
  /\ \E dt \in DOMAIN act_by_date :
       /\ TagsOf(dt) = <<"run", "bike", "run">>
       /\ act_by_date[dt].types_unique = "bike run"

\* the header titles whose value is taken out of the record when absent
Removed(s, fetched_props) ==
  {h \in DOMAIN fetched_props :
     s = "daily" /\ h \in {"Intensity Minutes", "HRV"} /\ fetched_props[h] = None}

\* C13: row shape.  Every row written by an update or an append has one
\* value per header column, in header order, the date key first; a header
\* column the record has no entry for is written as the empty value.  An
\* update leaves the cells to the right of the schema as they were.
C13_RowShape ==
  [][ (pc = "upsert" /\ pc' = "sleep") =>
        LET k == iso_date(d)
            H == SHEET_HEADERS(script)
            rec == PropsFor(d, act_by_date, intensity_map, hrv_map, steps)
            r == IF k \in DOMAIN date_index THEN date_index[k] ELSE Len(rows')
            old == IF k \in DOMAIN date_index /\ r <= Len(rows)
                   THEN rows[r] ELSE <<>>
        IN  /\ Len(rows'[r]) =
                 (IF Len(old) > Len(H) THEN Len(old) ELSE Len(H))
            /\ rows'[r][1] = k
            /\ \A i \in 1..Len(H) :
                 rows'[r][i] =
                   (IF H[i] \in Removed(script, rec) \/ rec[H[i]] = None
                    THEN Blank ELSE rec[H[i]])
            /\ \A i \in (Len(H) + 1)..Len(old) : rows'[r][i] = old[i]
    ]_vars

\* an appended row whose record had lost its HRV entry
C13_Witness ==
  /\ pc = "sleep" /\ script = "daily"
  /\ cur[iso_date(d)].op = "append"
  /\ cur[iso_date(d)].props["HRV"] = None
  /\ cur[iso_date(d)].props["Steps"] = "v1"
  /\ rows[Len(rows)] = <<iso_date(d), "0", "v1", "v1", "">>

C15_HeaderReconciled ==
  [][ (/\ pc = "open" /\ pc' = StepAfter("open")
       /\ (~ws_exists \/ row_values_1(rows) # SHEET_HEADERS(script)))
        => (/\ row_values_1(rows') = SHEET_HEADERS(script)
            /\ col_count' = HeaderCount(script))
    ]_vars

\* the date keys of the provider's events dated on or after first
KeysFrom(first) ==
  {iso_date(provided[i].day) :
     i \in {j \in 1..Len(provided) :
              provided[j].day # 0 /\ provided[j].day >= first}}

\* C16 as stated: window filtering of activities.  Every event dated
\* outside the planned window [start, end] is removed before grouping, so
\* the activity-by-date map has no key outside the window.
C16_NoKeyOutsideWindow ==
  pc = "done" => DOMAIN act_by_date \subseteq WindowKeys

\* C16, amended: every event dated before start is removed before grouping
\* and an undated event is dropped, so the map has no key before the window;
\* events dated after end are kept and grouped under their own date.
C16_NoKeyBeforeWindow ==
  pc = "done" =>
    DOMAIN act_by_date = KeysFrom(start_d)

\* a list with an undated event, one before the window and one after it
C16_Witness ==
  /\ pc = "done"
  /\ Len(provided) = 3
  /\ provided[1].day = 0
  /\ provided[2].day = start_d - 1
  /\ provided[3].day = end_d_inclusive + 1
  /\ DOMAIN act_by_date = {iso_date(end_d_inclusive + 1)}

\* the sum of field k over the events E, a missing value counting as 0
RECURSIVE SumOf(_, _)
SumOf(E, k) ==
  IF E = <<>> THEN 0
  ELSE (IF k \in DOMAIN Head(E) THEN Head(E)[k] ELSE 0) + SumOf(Tail(E), k)

\* the non-empty values of field k of the events E, in event order
ValuesOf(E, k) ==
  LET has == SelectSeq(E, LAMBDA a : k \in DOMAIN a /\ a[k] # None /\ a[k] # "")
  IN  [i \in 1..Len(has) |-> has[i][k]]

\* C17: rollup fold.  For every date the summary's count is the number of
\* events carrying the date; distance, duration and calories are the sums
\* of the events' values (a missing value counting as 0), in miles, minutes
\* (both to two places) and calories; names, types and the effect labels
\* hold the events' non-empty values in event order, one per event.
C17_RollupFold ==
  pc = "done" =>
    \A dt \in DOMAIN act_by_date :
      LET E == EventsOf(dt)
          v == act_by_date[dt]
      IN  /\ v.count = Len(E)
          /\ v.dist_mi = RoundDiv(SumOf(E, "distance") * 10000, 160934)
          /\ v.dur_min = RoundDiv(SumOf(E, "duration") * 100, 60)
          /\ v.cal = SumOf(E, "calories")
          /\ v.names = JoinSp(ValuesOf(E, "name"))
          /\ v.types = JoinSp(ValuesOf(E, "type"))
          /\ v.te = JoinSp(ValuesOf(E, "te"))

\* three events on one date, the middle one without figures, name or label
C17_Witness ==
  /\ pc = "done"
  /\ \E dt \in DOMAIN act_by_date :
       /\ Len(EventsOf(dt)) = 3
       /\ act_by_date[dt] =
            [count |-> 3, dist_mi |-> 621, dur_min |-> 3333, cal |-> 600,
             primary |-> "run", types_unique |-> "bike run",
             names |-> "a a", types |-> "run bike run", te |-> "TEMPO TEMPO"]
       /\ EventsOf(dt)[2] = [day |-> EventsOf(dt)[2].day, type |-> "bike",
                             name |-> ""]

\* the entry of the payload under key, as a dict ({} when there is none)
EntryOf(key) ==
  IF source.kind = "dict" /\ key \in DOMAIN source.f
       /\ source.f[key].kind = "dict"
  THEN source.f[key].f ELSE EmptyDict

\* the numeric value of an entry as text, None when it has none
ValueText(f) ==
  IF "score" \in DOMAIN f THEN ToString(f["score"])
  ELSE IF "value" \in DOMAIN f THEN ToString(f["value"])
  ELSE IF "percentage" \in DOMAIN f THEN ToString(f["percentage"])
  ELSE None

\* the qualitative label of an entry, None when it has none
LabelText(f) ==
  IF "qualifierKey" \in DOMAIN f /\ f["qualifierKey"] # None
  THEN f["qualifierKey"]
  ELSE IF "qualifier" \in DOMAIN f /\ f["qualifier"] # None
  THEN f["qualifier"]
  ELSE None

\* C18: sleep sub-score formatting.  A formatted sub-score is
\* "value(qualifier)" when the entry has both a numeric value and a label,
\* the label alone when it has only the label, and absent when it has
\* neither.
C18_SubScoreFormat ==
  pc = "done" =>
    LET f == EntryOf("awakeCount")
        got == ScoreCell(scores, "awake_count_fmt")
    IN  /\ (ValueText(f) # None /\ LabelText(f) # None)
             => got = ValueText(f) \o "(" \o LabelText(f) \o ")"
        /\ (ValueText(f) = None /\ LabelText(f) # None) => got = LabelText(f)
        /\ (ValueText(f) = None /\ LabelText(f) = None) => got = None

\* the positions of the log holding an event of one of the kinds
At(kinds) == {i \in 1..Len(log) : log[i].ev \in kinds}

\* C19: strict sequencing.  Within a run the index build and the three
\* window-level fetches each happen once and before the first per-date
\* fetch; every fetch and the write for a date are over before a later
\* date's fetch starts; dates are processed in ascending order, each once,
\* and a run that reaches its summary has processed exactly its window.
C19_StrictSequencing ==
  /\ \A what \in {"index", "intensity", "hrv", "activities"} :
       /\ Cardinality(At({what})) <= 1
       /\ \A i \in At({"fetch", "write"}) : \E j \in 1..(i - 1) : log[j].ev = what
  /\ \A j \in At({"fetch"}) : \A i \in At({"fetch", "write"}) :
       i < j => /\ log[i].day < log[j].day
                /\ \E w \in At({"write"}) : w < j /\ log[w].day = log[i].day
  /\ \A i \in At({"write"}) :
       /\ i > 1 /\ log[i - 1] = Event("fetch", log[i].day)
       /\ \A j \in At({"write"}) : j # i => log[j].day # log[i].day
  /\ pc = "done" =>
       /\ {log[i].day : i \in At({"write"})} = start_d..end_d_inclusive
       /\ Cardinality(At({"fetch"})) = Cardinality(At({"write"}))

\* a finished run over a two-day window
C19_Witness ==
  /\ pc = "done" /\ window_days = 2
  /\ log = <<Event("index", 0), Event("intensity", 0), Event("hrv", 0),
             Event("activities", 0),
             Event("fetch", start_d), Event("write", start_d),
             Event("fetch", start_d + 1), Event("write", start_d + 1)>>

\* C20: run counters.  At every point of the per-date loop updates +
\* appends is the number of dates whose write has completed; when the run
\* finishes it is the number of dates of the window, updates is the number
\* of window dates that were in the index when processed, and appends is the
\* number of rows added to the worksheet.
C20_RunCounters ==
  /\ updates + appends = Cardinality(At({"write"}))
  /\ pc = "done" =>
       /\ updates + appends = Cardinality(start_d..end_d_inclusive)
       /\ updates = Cardinality({k \in DOMAIN cur : cur[k].op = "update"})
       /\ appends = Len(rows) - rows0

\* a finished run that updated one date and appended the other
C20_Witness ==
  /\ pc = "done" /\ window_days = 2
  /\ updates = 1 /\ appends = 1
  /\ Len(rows) = rows0 + 1

\* the rows below the header whose first-column cell holds key k
RowsOf(rs, k) == {r \in 2..Len(rs) : Cell(rs, r, 1) = k}

\* the largest member of a non-empty set of row numbers
Highest(S) == CHOOSE r \in S : \A q \in S : q <= r

\* the index the first column of rs calls for: every non-empty value of
\* rows 2 and below, at the highest row holding it
IndexOf(rs) ==
  LET K == {Cell(rs, r, 1) : r \in 2..Len(rs)} \ {Blank}
  IN  IF K = {} THEN EmptyDict ELSE [k \in K |-> Highest(RowsOf(rs, k))]

\* C21: RowIndex construction.  The index built at run start holds exactly
\* the non-empty first-column values of rows 2 and below, each at a row whose
\* first-column cell holds it (the highest such row); the header row is
\* never a key and a date without a row is not in the index.
C21_IndexConstruction ==
  [][ (pc = "index" /\ pc' = StepAfter("index")) => date_index' = IndexOf(rows)
    ]_vars

\* the per-date lookup table of the window-level list that reports
ReportingMap == IF "intensity" \in reports THEN intensity_map ELSE hrv_map

\* the header title filled from that table
ReportingField == IF "intensity" \in reports THEN "Intensity Minutes" ELSE "HRV"

\* C22: window coverage of the batched adapters.  The one intensity fetch
\* and the one HRV fetch of a run ask for a period covering every date of the
\* planned window, with today included or not: a window date the provider
\* holds a value for is in the lookup table, and is not looked up as absent
\* when its record is built.
C22_WindowCovered ==
  /\ \A x \in held : iso_date(x) \in DOMAIN ReportingMap
  /\ pc = "upsert" =>
       (d \in held =>
          PropsFor(d, act_by_date, intensity_map, hrv_map, steps)[ReportingField]
            # None)

\* C23: RowIndex consistency.  At every point of a run, for every key k of
\* the RowIndex the worksheet row at position RowIndex[k] has k in its first
\* column, and no two keys share a row position.
C23_IndexConsistent ==
  /\ \A k \in DOMAIN date_index : Cell(rows, date_index[k], 1) = k
  /\ \A k1, k2 \in DOMAIN date_index :
       date_index[k1] = date_index[k2] => k1 = k2

\* an index holding a key read at run start and a key registered by an
\* append of this run
C23_Witness ==
  /\ pc = "sleep"
  /\ cur[iso_date(d)].op = "append"
  /\ iso_date(d) \in DOMAIN date_index
  /\ date_index[iso_date(d)] = rows0 + 1
  /\ \E k \in DOMAIN date_index : date_index[k] <= rows0

\* C24: frame of an upsert.  An update for date d changes only cells of row
\* RowIndex[d]: the number of rows and every other row, the header included,
\* stay as they were.  An append adds exactly one row and leaves every row
\* that was there unchanged.  Neither touches the sheet's column count.
C24_UpsertFrame ==
  [][ (pc = "upsert" /\ pc' = "sleep") =>
        /\ UNCHANGED <<ws_exists, col_count>>
        /\ IF InIndex(date_index, iso_date(d))
           THEN /\ Len(rows') = Len(rows)
                /\ \A i \in 1..Len(rows) \ {date_index[iso_date(d)]} :
                     rows'[i] = rows[i]
                /\ date_index[iso_date(d)] # 1
           ELSE /\ Len(rows') = Len(rows) + 1
                /\ SubSeq(rows', 1, Len(rows)) = rows
    ]_vars

\* an update of row 2 in a sheet whose row 3 this run appended before it
C24_Witness ==
  /\ pc = "sleep"
  /\ cur[iso_date(d)].op = "update"
  /\ date_index[iso_date(d)] = 2
  /\ Len(rows) = 3 /\ appends = 1
  /\ Cell(rows, 3, 1) = iso_date(d - 1)
  /\ Cell(rows, 1, 1) = "Date"

\* max(n, 0)
AtLeastZero(n) == IF n > 0 THEN n ELSE 0

\* C25: termination.  For every integer window length and every outcome of
\* the provider calls the per-date loop comes to an end; a run that reaches
\* its summary has processed exactly max(windowDays, 0) dates, and with
\* windowDays <= 0 it has processed no date, written no data row and
\* reports 0 updates and 0 appends.
C25_Termination ==
  /\ (pc = "loop") ~> (pc \in {"done", "aborted"})
  /\ [](pc = "done" =>
          /\ Len(planned) = AtLeastZero(window_days)
          /\ Cardinality(At({"fetch"})) = AtLeastZero(window_days)
          /\ Cardinality(At({"write"})) = AtLeastZero(window_days)
          /\ window_days <= 0 =>
               /\ cur = EmptyDict
               /\ Len(rows) = rows0
               /\ updates = 0 /\ appends = 0)

\* a finished run over a window of length -1, every window-level call made
C25_Witness ==
  /\ pc = "done"
  /\ window_days < 0
  /\ planned = <<>>
  /\ Len(log) = 4
  /\ updates = 0 /\ appends = 0

\* C26: the header rewrite leaves data untouched.  When the worksheet is
\* found with a header other than the expected schema, opening it rewrites
\* row 1 only and may drop columns beyond the schema's length: the number of
\* data rows and every data-row cell within the schema's columns stay exactly
\* as they were, whatever title now stands above them.
C26_HeaderRewriteFrame ==
  [][ (pc = "open" /\ pc' = StepAfter("open") /\ ws_exists) =>
        LET H == SHEET_HEADERS(script) IN
        /\ Len(rows') = (IF Len(rows) = 0 /\ rows' # rows THEN 1 ELSE Len(rows))
        /\ \A r \in 2..Len(rows) :
             /\ \A col \in 1..Len(H) : Cell(rows', r, col) = Cell(rows, r, col)
             /\ \A col \in (Len(H) + 1)..Len(rows'[r]) :
                  Cell(rows', r, col) = Cell(rows, r, col)
             /\ Len(rows'[r]) <= Len(rows[r])
    ]_vars

\* the stale sheet after the rewrite: the schema in row 1, the sixth column
\* gone, and the old weekday cell now under the schema's second title
C26_Witness ==
  /\ pc = "index" /\ runs = 1
  /\ rows[1] = SHEET_HEADERS(script)
  /\ Len(rows) = 2
  /\ rows[2] = <<iso_date(today - 1), "Monday", "v1", "v1", "v1">>
  /\ col_count = HeaderCount(script)

====
